---- MODULE Spec2Model ----
(***************************************************************************)
(* Gateway discovery of puzzle-js: one GatewayStorefrontInstance polling    *)
(* the configuration route of one GatewayBFF process.                       *)
(*                                                                          *)
(* The storefront side (src/src/lib/gateway.ts:24-80) keeps `config`, the   *)
(* last catalog it accepted, and `intervalId`, the handle of the last       *)
(* setInterval.  Every fetch() is a promise chain: the request is sent, the *)
(* gateway answers it from its exposedConfig, and the answer is applied by  *)
(* update() (or swallowed by the catch) in a later turn of the event loop.  *)
(* JavaScript runs each callback to completion, so every callback is one    *)
(* action; what interleaves is the order of the callbacks.                  *)
(*                                                                          *)
(* Further sections model one call at a time (variable `call`) of the       *)
(* FragmentStorefront content client, of the gateway's fragment route with  *)
(* FragmentBFF.render, of the Api version middleware, of a page render and  *)
(* of a streamed page render, each under a specification of its own.        *)
(***************************************************************************)
EXTENDS Integers, Sequences, FiniteSets, TLC

\* ------------------------------------------------------------------ bounds
\* fetch() calls made in one behaviour (the constructor's included)
MaxPolls == 3
\* setInterval calls made in one behaviour
MaxTimers == 2
\* times the gateway process is redeployed with a configuration that changes
\* its catalog
MaxRedeploys == 1

\* the versions the fragment is configured with (the keys of fragment.versions)
\* and the asset lists a version can declare
Versions == {1, 2}
Assets == {1}

\* ------------------------------------------------------------ the gateway
\* IGatewayBFFConfiguration, one fragment 'product': its live version, its
\* render options and the assets of each of its versions.
BFFConfigs ==
    [version : Versions, placeholder : BOOLEAN, versions : [Versions -> Assets]]

\* createExposeConfig: only the live version's assets are exposed; hash: ''.
createExposeConfig(gatewayConfig) ==
    [fragments |->
        [product |-> [version |-> gatewayConfig.version,
                      render  |-> [placeholder |-> gatewayConfig.placeholder],
                      assets  |-> gatewayConfig.versions[gatewayConfig.version]]],
     hash |-> 0]

\* A variant of the serialization that leaves the render options out.
JSONstringifyNoRender(exposedConfig) ==
    << exposedConfig.fragments.product.version,
       exposedConfig.fragments.product.assets,
       exposedConfig.hash >>

\* JSON.stringify(this.exposedConfig): the text of the exposed catalog, as the
\* sequence of its field values in the order createExposeConfig writes them
\* (version, render, assets, then the still empty hash).
JSONstringify(exposedConfig) ==
    << exposedConfig.fragments.product.version,
       IF exposedConfig.fragments.product.render.placeholder THEN 2 ELSE 1,
       exposedConfig.fragments.product.assets,
       exposedConfig.hash >>

\* md5 of a text: a digest that is collision free on the texts of the model
\* (the text read as a number in base Radix; every symbol is below Radix).
Radix == 1 + CHOOSE n \in Versions \cup Assets \cup {2} :
                 \A m \in Versions \cup Assets \cup {2} : m <= n

RECURSIVE md5(_)
md5(text) ==
    IF text = << >> THEN 1
    ELSE md5(SubSeq(text, 1, Len(text) - 1)) * Radix + text[Len(text)]

\* new GatewayBFF(gatewayConfig): exposedConfig with its hash filled in.
GatewayBFF(gatewayConfig) ==
    LET exposedConfig == createExposeConfig(gatewayConfig)
    IN  [exposedConfig EXCEPT !.hash = md5(JSONstringify(exposedConfig))]

\* The configuration the gateway process is first started with.
InitialBFFConfig ==
    [version |-> 1, placeholder |-> FALSE, versions |-> [v \in Versions |-> 1]]

\* ---------------------------------------------------------- the storefront
\* config: IExposeConfig | undefined
undefined == [undefined |-> TRUE]

\* JSON values a body can decode to that are no catalog: null, the scalar
\* false (0 and "" behave alike: falsy, and their hash is undefined), and the
\* object {} parsed from poll id's answer (its fragments and its hash are
\* undefined).  An undefined hash is written -1.
null == [null |-> TRUE]

false == [false |-> TRUE, fragments |-> undefined, hash |-> -1]

emptyObject(id) == [obj |-> id, fragments |-> undefined, hash |-> -1]

\* !value
falsy(value) == value = undefined \/ value = null \/ value = false

GATEWAY_READY == "GATEWAY_READY"

\* new FragmentStorefront(name, from): no config and no fragmentUrl yet.
FragmentStorefront == [config |-> undefined, fragmentUrl |-> undefined]

\* No call is being made.
NoCall == [phase |-> "idle"]
GATEWAY_UPDATED == "GATEWAY_UPDATED"

VARIABLES
    config,        \* GatewayStorefrontInstance.config: undefined, or the object
                   \* parsed from a poll's answer (obj: which poll's)
    intervalId,    \* GatewayStorefrontInstance.intervalId: 0 is null
    timers,        \* the interval timers of the event loop that are armed
    nextTimer,     \* handles setInterval has given out
    events,        \* what `events` has emitted, each with the config the
                   \* listener reads from the instance it is handed
    inflight,      \* fetch() promise chains that have not settled
    nextPoll,      \* fetch() calls made
    remote,        \* the gateway process's exposedConfig
    hashChanges,   \* times the hash the gateway advertises changed
    updating,      \* startUpdating was called and stopUpdating not since
    unhandled,     \* errors that escaped a callback or a call
    applied,       \* update() calls made
    fragment,      \* one FragmentStorefront: its config and its fragmentUrl
    call           \* the request being served, or the call being made, on
                   \* the fragment, the gateway's fragment route or an api

vars == << config, intervalId, timers, nextTimer, events, inflight, nextPoll,
           remote, hashChanges, updating, unhandled, applied, fragment, call >>

\* Variants of update(data) that differ from the code in one place each:
\* one takes an equal-hash payload as the new config without a notification,
\* one copies only the new hash into the stored config, one emits READY for
\* a changed hash too, one emits before it assigns.
updateReplaceSilently(cfg, data) ==
    IF cfg = undefined
    THEN [config |-> data, emitted |-> << [type |-> GATEWAY_READY, seen |-> data] >>]
    ELSE IF data.hash # cfg.hash
         THEN [config |-> data,
               emitted |-> << [type |-> GATEWAY_UPDATED, seen |-> data] >>]
         ELSE [config |-> data, emitted |-> << >>]

updateMergesHash(cfg, data) ==
    IF cfg = undefined
    THEN [config |-> data, emitted |-> << [type |-> GATEWAY_READY, seen |-> data] >>]
    ELSE IF data.hash # cfg.hash
         THEN [config |-> [cfg EXCEPT !.hash = data.hash],
               emitted |-> << [type |-> GATEWAY_UPDATED,
                               seen |-> [cfg EXCEPT !.hash = data.hash]] >>]
         ELSE [config |-> cfg, emitted |-> << >>]

updateEmitsFirst(cfg, data) ==
    IF cfg = undefined
    THEN [config |-> data, emitted |-> << [type |-> GATEWAY_READY, seen |-> cfg] >>]
    ELSE IF data.hash # cfg.hash
         THEN [config |-> data,
               emitted |-> << [type |-> GATEWAY_UPDATED, seen |-> cfg] >>]
         ELSE [config |-> cfg, emitted |-> << >>]

\* A variant of update() that keeps the first catalog it was given.
updateKeepsFirst(cfg, data) ==
    IF falsy(cfg)
    THEN [config |-> data, emitted |-> << [type |-> GATEWAY_READY, seen |-> data] >>]
    ELSE [config |-> cfg, emitted |-> << >>]

\* update(data), as a function of this.config: the config it leaves and the
\* notifications it emits, each with the config a listener then reads from
\* the instance it is handed.  `!this.config` is true of undefined, of
\* null and of false; with a config stored, data.hash of a null answer throws
\* a TypeError, which the catch of fetch() swallows, and data.hash of false is
\* undefined.
update(cfg, data) ==
    IF falsy(cfg)
    THEN [config |-> data, emitted |-> << [type |-> GATEWAY_READY, seen |-> data] >>]
    ELSE IF data = null
         THEN [config |-> cfg, emitted |-> << >>]
         ELSE IF data.hash # cfg.hash
              THEN [config |-> data,
                    emitted |-> << [type |-> GATEWAY_UPDATED, seen |-> data] >>]
              ELSE [config |-> cfg, emitted |-> << >>]

\* fetch(): one more promise chain, its request on the wire.
fetch ==
    /\ nextPoll < MaxPolls
    /\ nextPoll' = nextPoll + 1
    /\ inflight' = inflight \cup {[id |-> nextPoll + 1, phase |-> "sent", data |-> undefined]}

\* constructor: super(gatewayConfig); this.fetch().
Init ==
    /\ config = undefined
    /\ intervalId = 0
    /\ timers = {}
    /\ nextTimer = 0
    /\ events = << >>
    /\ inflight = {[id |-> 1, phase |-> "sent", data |-> undefined]}
    /\ nextPoll = 1
    /\ remote = GatewayBFF(InitialBFFConfig)
    /\ hashChanges = 0
    /\ updating = FALSE
    /\ unhandled = 0
    /\ applied = 0
    /\ fragment = FragmentStorefront
    /\ call = NoCall

\* startUpdating(pollingInterval)
StartUpdating ==
    /\ nextTimer < MaxTimers
    /\ nextTimer' = nextTimer + 1
    /\ intervalId' = nextTimer + 1
    /\ timers' = timers \cup {nextTimer + 1}
    /\ updating' = TRUE
    /\ UNCHANGED << config, events, inflight, nextPoll, remote, hashChanges, unhandled, applied,
                    fragment, call >>

\* Variants of stopUpdating(): one throws when there is no armed timer to
\* clear, one discards the stored config.
stopUpdatingThrows(id, armed) == IF id # 0 /\ id \in armed THEN 0 ELSE 1

stopUpdatingDiscards(cfg) == undefined

\* stopUpdating(): the errors it raises (clearInterval accepts any handle),
\* the timers armed after it ran, and the config it leaves.
stopUpdatingErrors(id, armed) == 0

stopUpdatingTimers(id, armed) == IF id # 0 THEN armed \ {id} ELSE armed

stopUpdatingConfig(cfg) == cfg

StopUpdating ==
    /\ timers' = stopUpdatingTimers(intervalId, timers)
    /\ config' = stopUpdatingConfig(config)
    /\ unhandled' = unhandled + stopUpdatingErrors(intervalId, timers)
    /\ updating' = FALSE
    /\ UNCHANGED << intervalId, nextTimer, events, inflight, nextPoll, remote,
                    hashChanges, applied,
                    fragment, call >>

\* An armed interval timer fires: this.fetch.bind(this).
TimerFetch ==
    /\ \E t \in timers : fetch
    /\ UNCHANGED << config, intervalId, timers, nextTimer, events, remote,
                    hashChanges, updating, unhandled, applied,
                    fragment, call >>

\* The gateway's configuration route answers a request with its exposedConfig;
\* res.json() of the answer is a new object of the storefront.
ConfigurationRoute ==
    /\ \E p \in inflight :
          /\ p.phase = "sent"
          /\ inflight' = (inflight \ {p}) \cup
                {[id |-> p.id, phase |-> "answered",
                  data |-> [obj |-> p.id, fragments |-> remote.fragments,
                            hash |-> remote.hash]]}
    /\ UNCHANGED << config, intervalId, timers, nextTimer, events, nextPoll,
                    remote, hashChanges, updating, unhandled, applied,
                    fragment, call >>

\* .then(this.update.bind(this)) of an answered fetch.
Update ==
    /\ \E p \in inflight :
          /\ p.phase = "answered"
          /\ inflight' = inflight \ {p}
          /\ config' = update(config, p.data).config
          /\ events' = events \o update(config, p.data).emitted
    /\ applied' = applied + 1
    /\ UNCHANGED << intervalId, timers, nextTimer, nextPoll, remote,
                    hashChanges, updating, unhandled,
                    fragment, call >>

\* A variant of the catch that drops the stored config when a poll fails.
catchDiscards(cfg) == undefined

\* .catch(e => {}) of a fetch: the error is swallowed, the instance is left as
\* it is.
catchConfig(cfg) == cfg

catch ==
    /\ config' = catchConfig(config)
    /\ UNCHANGED << intervalId, timers, nextTimer, events, nextPoll, remote,
                    hashChanges, updating, unhandled, applied,
                    fragment, call >>

\* fetch(this.url) rejects (the gateway is unreachable): the catch swallows
\* the error.
FetchRejected ==
    /\ \E p \in inflight :
          /\ p.phase = "sent"
          /\ inflight' = inflight \ {p}
    /\ catch

\* The gateway is reached but the body is no JSON: res.json() rejects and the
\* catch swallows the error.
JsonRejected ==
    /\ \E p \in inflight :
          /\ p.phase = "sent"
          /\ inflight' = inflight \ {p}
    /\ catch

\* The gateway process is restarted with another configuration: the
\* constructor computes exposedConfig and its hash again.
Redeploy ==
    /\ hashChanges < MaxRedeploys
    /\ \E gatewayConfig \in BFFConfigs :
          /\ GatewayBFF(gatewayConfig) # remote
          /\ remote' = GatewayBFF(gatewayConfig)
          /\ hashChanges' = IF remote'.hash # remote.hash
                            THEN hashChanges + 1 ELSE hashChanges
    /\ UNCHANGED << config, intervalId, timers, nextTimer, events, inflight,
                    nextPoll, updating, unhandled, applied,
                    fragment, call >>

Next ==
    \/ StartUpdating
    \/ StopUpdating
    \/ TimerFetch
    \/ ConfigurationRoute
    \/ Update
    \/ FetchRejected
    \/ JsonRejected
    \/ Redeploy

Spec == Init /\ [][Next]_vars

\* The same, the gateway answering every request that is not lost and the
\* event loop running every .then whose promise is resolved.
SpecLive == Spec /\ WF_vars(ConfigurationRoute) /\ WF_vars(Update)

\* The url answers with a body that is JSON but no catalog (another service,
\* a proxy's error document): res.json() resolves and update() is given it.
MalformedAnswer ==
    /\ \E p \in inflight :
        \E data \in {null, false, emptyObject(p.id)} :
          /\ p.phase = "sent"
          /\ inflight' = (inflight \ {p}) \cup
                {[id |-> p.id, phase |-> "answered", data |-> data]}
    /\ UNCHANGED << config, intervalId, timers, nextTimer, events, nextPoll,
                    remote, hashChanges, updating, unhandled, applied,
                    fragment, call >>

NextMalformed ==
    \/ StartUpdating
    \/ StopUpdating
    \/ TimerFetch
    \/ ConfigurationRoute
    \/ MalformedAnswer
    \/ Update
    \/ FetchRejected
    \/ JsonRejected
    \/ Redeploy

\* The instance polling a url that may answer with any JSON.
SpecMalformed == Init /\ [][NextMalformed]_vars

\* ------------------------------------------------- the fragment (storefront)
\* The gateway variables, which the calls below leave alone.
gatewayVars == << config, intervalId, timers, nextTimer, events, inflight,
                  nextPoll, remote, hashChanges, updating, unhandled, applied >>

\* An object as a function from its keys; {...a, ...b} and delete object[key].
spread(a, b) ==
    [k \in DOMAIN a \cup DOMAIN b |-> IF k \in DOMAIN b THEN b[k] ELSE a[k]]

delete(object, key) == [k \in DOMAIN object \ {key} |-> object[k]]

\* The empty object {}.
emptyQuery == [k \in {} |-> ""]

\* querystring.stringify(query): the key=value pairs of the text.
stringify(query) == {<< k, query[k] >> : k \in DOMAIN query}

\* DEFAULT_CONTENT_TIMEOUT of ./config, and the timeouts a descriptor can
\* declare in render.timeout (0: none declared).
DEFAULT_CONTENT_TIMEOUT == 5

RenderTimeouts == {0, 3}

\* IExposeFragment as the fragment uses it: render.placeholder, render.timeout.
ExposeFragments ==
    [render : [placeholder : BOOLEAN, timeout : RenderTimeouts]]

\* The attributes of a <fragment> tag handed to getContent.
AttribSets ==
    { emptyQuery,
      [from |-> "Browsing", name |-> "product"],
      [from |-> "Browsing", name |-> "product", primary |-> "", shouldwait |-> ""],
      [from |-> "Browsing", name |-> "product", partial |-> "meta", lang |-> "tr"] }

\* The query strings of the page requests handed to getContent.
RequestQueries ==
    { emptyQuery,
      [q |-> "shoes"],
      [q |-> "shoes", lang |-> "en"],
      [__renderMode |-> "preview"],
      [q |-> "bags", name |-> "x", from |-> "y", partial |-> "z",
       primary |-> "1", shouldwait |-> "1"] }

\* req: absent, or {url, headers}; url absent, or as url.parse reads it (its
\* pathname and its query), headers absent or present.  The pathname is null
\* when the url has none ('?q=shoes', '#top', 'mailto:a@b.c'), else a string,
\* written as its text cut into pieces: every "/" and every occurrence of the
\* fragment's name is a piece of its own ('/products/detail' is /, product, s,
\* /, detail).
noRequest == [none |-> TRUE]

string(pieces) == [pieces |-> pieces]

Requests ==
    {noRequest} \cup
    [url : {undefined} \cup
           [pathname : {string(<< "/" >>),
                        string(<< "/", "product", "/", "detail" >>),
                        string(<< "/", "product", "s", "/", "detail" >>),
                        string(<< "/", "a", "/", "product", "x" >>),
                        null},
            query : RequestQueries],
     headers : {undefined, [cookie |-> "c"]}]

\* `req && parsedRequest`: req is given and has a url.
parsed(req) == req # noRequest /\ req.url # undefined

\* pathname.replace('/' + name, ''): the pathname without the first
\* occurrence of the text '/' + name, wherever it is.
replaceName(pathname, name) ==
    LET found == {i \in 1..(Len(pathname) - 1) :
                     pathname[i] = "/" /\ pathname[i + 1] = name}
    IN  IF found = {} THEN pathname
        ELSE LET first == CHOOSE i \in found : \A j \in found : i <= j
             IN  SubSeq(pathname, 1, first - 1)
                 \o SubSeq(pathname, first + 2, Len(pathname))

\* update(config, gatewayUrl, assetUrl) of the fragment 'product'.
\* `if (assetUrl)` is false of undefined and of '', both written "" here.
fragmentUpdate(exposeFragment, gatewayUrl, assetUrl) ==
    [config |-> exposeFragment,
     fragmentUrl |-> IF assetUrl # ""
                     THEN [base |-> assetUrl, name |-> "product"]
                     ELSE [base |-> gatewayUrl, name |-> "product"]]

FragmentUpdate ==
    /\ \E exposeFragment \in ExposeFragments, assetUrl \in {"", "assets"} :
          fragment' = fragmentUpdate(exposeFragment, "gateway", assetUrl)
    /\ UNCHANGED call
    /\ UNCHANGED gatewayVars

\* A variant of the failure outcome that reports success.
failureOk == [status |-> 200, html |-> {}]

\* The outcomes of a fetch that are failures.
FailureKinds == {"transport", "undecodable", "timeout"}

\* The failure outcome of getContent.
failure == [status |-> 500, html |-> {}]

\* getContent, after the fetch: .then of an answer whose body is JSON, .catch
\* of everything else (transport error, timeout, a body that is no JSON).
getContentSettled(outcome) ==
    IF outcome.kind = "answered"
    THEN [status |-> outcome.status, html |-> outcome.body]
    ELSE failure

\* The query getContent sends: {...attribs, __renderMode: 'stream'}, then the
\* query of req.url spread over it, then the five deletes.
contentQuery(attribs, req) ==
    LET query == spread(attribs, [__renderMode |-> "stream"])
        merged == IF parsed(req) THEN spread(query, req.url.query) ELSE query
    IN  delete(delete(delete(delete(delete(merged,
            "from"), "name"), "partial"), "primary"), "shouldwait")

\* requestConfiguration.timeout
contentTimeout(exposeFragment) ==
    IF exposeFragment.render.timeout # 0
    THEN exposeFragment.render.timeout
    ELSE DEFAULT_CONTENT_TIMEOUT

\* getContent(attribs, req) up to its fetch: without a config the failure
\* outcome at once; with a url that has no pathname, pathname.replace throws
\* a TypeError outside the fetch chain and its catch, so the promise of
\* getContent rejects and nothing is sent; else the request it sends.
getContent(frag, attribs, req) ==
    IF frag.config = undefined
    THEN [op |-> "getContent", phase |-> "done", attribs |-> attribs, req |-> req,
          configured |-> FALSE, sent |-> 0, request |-> noRequest,
          outcome |-> [kind |-> "none"], result |-> failure]
    ELSE IF parsed(req) /\ req.url.pathname = null
    THEN [op |-> "getContent", phase |-> "rejected", attribs |-> attribs, req |-> req,
          configured |-> TRUE, sent |-> 0, request |-> noRequest,
          outcome |-> [kind |-> "none"], result |-> undefined]
    ELSE [op |-> "getContent", phase |-> "fetching", attribs |-> attribs, req |-> req,
          configured |-> TRUE, sent |-> 1,
          request |-> [url |-> frag.fragmentUrl,
                       path |-> IF parsed(req)
                                THEN replaceName(req.url.pathname.pieces, "product")
                                ELSE << "/" >>,
                       query |-> stringify(contentQuery(attribs, req)),
                       timeout |-> contentTimeout(frag.config),
                       headers |-> IF req # noRequest THEN req.headers ELSE undefined],
          outcome |-> [kind |-> "none"], result |-> undefined]

GetContent ==
    /\ call = NoCall
    /\ \E attribs \in AttribSets, req \in Requests :
          call' = getContent(fragment, attribs, req)
    /\ UNCHANGED fragment
    /\ UNCHANGED gatewayVars

\* A variant of getPlaceholder that asks the gateway whatever the descriptor
\* declares.
placeholderWantedAlways(frag) == frag.config # undefined

\* getPlaceholder: the two early returns.
placeholderWanted(frag) ==
    /\ frag.config # undefined
    /\ frag.config.render.placeholder

\* getPlaceholder() up to its fetch: fetch(`${this.fragmentUrl}/placeholder`)
\* is given no options, so the request carries no timeout (0).
getPlaceholder(frag) ==
    IF ~placeholderWanted(frag)
    THEN [op |-> "getPlaceholder", phase |-> "done",
          configured |-> frag.config # undefined,
          enabled |-> frag.config # undefined /\ frag.config.render.placeholder,
          sent |-> 0, request |-> noRequest,
          outcome |-> [kind |-> "none"], result |-> ""]
    ELSE [op |-> "getPlaceholder", phase |-> "fetching",
          configured |-> frag.config # undefined,
          enabled |-> frag.config # undefined /\ frag.config.render.placeholder,
          sent |-> 1,
          request |-> [url |-> frag.fragmentUrl, path |-> << "/", "placeholder" >>,
                       query |-> {}, timeout |-> 0, headers |-> undefined],
          outcome |-> [kind |-> "none"], result |-> undefined]

\* getPlaceholder, after the fetch: the text of the answer, '' from the catch.
getPlaceholderSettled(outcome) ==
    IF outcome.kind = "answered" THEN outcome.body ELSE ""

GetPlaceholder ==
    /\ call = NoCall
    /\ call' = getPlaceholder(fragment)
    /\ UNCHANGED fragment
    /\ UNCHANGED gatewayVars

\* The call's promise settles with what its op makes of the fetch's outcome.
settle(outcome) ==
    [call EXCEPT !.phase = "done", !.outcome = outcome,
                 !.result = IF call.op = "getContent"
                            THEN getContentSettled(outcome)
                            ELSE getPlaceholderSettled(outcome)]

\* The gateway answers: a status and a body the call can decode (JSON partials
\* for the content, text for the placeholder).
FetchAnswered ==
    /\ call.phase = "fetching"
    /\ \E status \in {200, 404} :
          \E body \in IF call.op = "getContent"
                      THEN {{<< "main", "Product Content" >>},
                            {<< "main", "Not Found" >>, << "meta", "m" >>}}
                      ELSE {"Product Placeholder"} :
             call' = settle([kind |-> "answered", status |-> status, body |-> body])
    /\ UNCHANGED fragment
    /\ UNCHANGED gatewayVars

\* The fetch rejects (transport error), or the body does not decode.
FetchFailed ==
    /\ call.phase = "fetching"
    /\ \E kind \in {"transport", "undecodable"} :
          call' = settle([kind |-> kind])
    /\ UNCHANGED fragment
    /\ UNCHANGED gatewayVars

\* node-fetch rejects a request that carries a timeout when it expires.
FetchTimeout ==
    /\ call.phase = "fetching"
    /\ call.request.timeout > 0
    /\ call' = settle([kind |-> "timeout"])
    /\ UNCHANGED fragment
    /\ UNCHANGED gatewayVars

\* The caller has its result, or the rejection; the next call can be made.
Return ==
    /\ call.phase \in {"done", "rejected"}
    /\ call' = NoCall
    /\ UNCHANGED fragment
    /\ UNCHANGED gatewayVars

NextFragment ==
    \/ FragmentUpdate
    \/ GetContent
    \/ GetPlaceholder
    \/ FetchAnswered
    \/ FetchFailed
    \/ FetchTimeout
    \/ Return

\* One FragmentStorefront, updated and called in any order.
SpecFragment == Init /\ [][NextFragment]_vars

\* ------------------------------------------- the gateway's fragment route
\* Names of ./config and ./enums the route reads.
RENDER_MODE_QUERY_NAME == "__renderMode"

PREVIEW_PARTIAL_QUERY_NAME == "__partial"

DEFAULT_MAIN_PARTIAL == "main"

\* req.cookies[fragmentConfig.testCookie]: 0 when the cookie is absent or empty
\* (both falsy), else the version it names; 3 names no version of the
\* fragment, 4 neither but stands for the name of a property every object
\* inherits ('constructor', 'toString', '__proto__', ...).
noCookie == 0

InheritedVersions == {4}

CookieValues == {noCookie} \cup Versions \cup {3} \cup InheritedVersions

\* fragmentConfig.versions: the configured versions, each with a handler that
\* has a data function or has none.
HandlerSets ==
    UNION {[known -> [data : BOOLEAN]] : known \in SUBSET Versions \ {{}}}

\* IFragmentBFF of fragment 'product'; its live version is one of its versions
\* (createExposeConfig reads versions[version].assets).
FragmentBFFConfigs ==
    {fragmentConfig \in [version : Versions, render : [static : BOOLEAN],
                         versions : HandlerSets] :
        fragmentConfig.version \in DOMAIN fragmentConfig.versions}

\* prepareHandlers: one handler per key of config.versions.
prepareHandlers(fragmentConfig) ==
    [version \in DOMAIN fragmentConfig.versions |-> fragmentConfig.versions[version]]

\* new FragmentBFF(fragmentConfig)
FragmentBFF(fragmentConfig) ==
    [config |-> fragmentConfig, handler |-> prepareHandlers(fragmentConfig)]

\* The requests that reach the route: a query and the test cookie.
RouteRequests ==
    [query : {emptyQuery,
              [__renderMode |-> "stream"],
              [__renderMode |-> "preview"],
              [__renderMode |-> "stream", __partial |-> "meta"],
              [__partial |-> "meta"],
              [__partial |-> ""],
              [__partial |-> "constructor"],
              [__partial |-> "__proto__"]},
     cookie : CookieValues]

\* handler.content(req, data) of a version: its partials.
content(version, data) == [main |-> [version |-> version, data |-> data]]

\* this.handler[version] is truthy: this.handler is a plain object, so the
\* lookup finds the handlers of the configured versions and the properties
\* inherited from Object.prototype.
handlerFound(fragmentBFF, version) ==
    version \in DOMAIN fragmentBFF.handler \/ version \in InheritedVersions

\* handler.data is truthy: a configured handler with a data function (an
\* inherited property has none).
handlerData(fragmentBFF, version) ==
    version \in DOMAIN fragmentBFF.handler /\ fragmentBFF.handler[version].data

\* A variant of render that treats the data stage as optional.
renderDataOptional(fragmentBFF, version) ==
    LET targetVersion == IF version # noCookie THEN version
                         ELSE fragmentBFF.config.version
    IN  IF handlerFound(fragmentBFF, targetVersion)
        THEN IF fragmentBFF.config.render.static
                \/ ~handlerData(fragmentBFF, targetVersion)
             THEN IF targetVersion \in DOMAIN fragmentBFF.handler
                  THEN [phase |-> "content", targetVersion |-> targetVersion,
                        dataCalls |-> 0, contentCalls |-> 1, error |-> ""]
                  ELSE [phase |-> "rejected", targetVersion |-> targetVersion,
                        dataCalls |-> 0, contentCalls |-> 0,
                        error |-> "handler.content is not a function"]
             ELSE [phase |-> "data", targetVersion |-> targetVersion,
                   dataCalls |-> 1, contentCalls |-> 0, error |-> ""]
        ELSE [phase |-> "rejected", targetVersion |-> targetVersion,
              dataCalls |-> 0, contentCalls |-> 0,
              error |-> "Failed to find fragment version"]

\* FragmentBFF.render(req, version) up to its first await or its return: the
\* handler of `version || this.config.version`; static: content(req) is called
\* (a TypeError when the handler found is an inherited property, which has no
\* content function); else the data function is called and awaited, or its
\* absence is an error.
render(fragmentBFF, version) ==
    LET targetVersion == IF version # noCookie THEN version
                         ELSE fragmentBFF.config.version
    IN  IF handlerFound(fragmentBFF, targetVersion)
        THEN IF fragmentBFF.config.render.static
             THEN IF targetVersion \in DOMAIN fragmentBFF.handler
                  THEN [phase |-> "content", targetVersion |-> targetVersion,
                        dataCalls |-> 0, contentCalls |-> 1, error |-> ""]
                  ELSE [phase |-> "rejected", targetVersion |-> targetVersion,
                        dataCalls |-> 0, contentCalls |-> 0,
                        error |-> "handler.content is not a function"]
             ELSE IF handlerData(fragmentBFF, targetVersion)
                  THEN [phase |-> "data", targetVersion |-> targetVersion,
                        dataCalls |-> 1, contentCalls |-> 0, error |-> ""]
                  ELSE [phase |-> "rejected", targetVersion |-> targetVersion,
                        dataCalls |-> 0, contentCalls |-> 0,
                        error |-> "Failed to find data handler"]
        ELSE [phase |-> "rejected", targetVersion |-> targetVersion,
              dataCalls |-> 0, contentCalls |-> 0,
              error |-> "Failed to find fragment version"]

\* The names of the properties every plain object inherits from
\* Object.prototype; a lookup of one of them in a plain object finds a function
\* (under __proto__ the prototype itself), which is truthy.
ObjectPrototype ==
    {"constructor", "toString", "toLocaleString", "valueOf", "hasOwnProperty",
     "isPrototypeOf", "propertyIsEnumerable", "__proto__", "__defineGetter__",
     "__defineSetter__", "__lookupGetter__", "__lookupSetter__"}

\* object[name] of an inherited property: what Object.prototype holds.
inherited(name) == [inherited |-> name]

\* GatewayBFF.fragments as createExposeConfig fills it: the FragmentBFF of
\* every configured fragment under its name.
gatewayFragments(fragmentBFF) == [name \in {"product"} |-> fragmentBFF]

\* The fragment names and render modes renderFragment can be called with: the
\* configured fragment, a name of no fragment, names every object inherits;
\* the two modes of the route and a text that is neither.
FragmentNames == {"product", "basket"} \cup ObjectPrototype

RenderModes == {"stream", "preview", "raw"}

\* renderFragment, after render: the switch wraps fragmentContent[partial] for
\* 'preview' and gives the JSON of the content for 'stream' and for every
\* other mode; the property read finds the partials of the content and the
\* properties the content inherits.
renderFragmentSettled(fragmentContent, renderMode, partial) ==
    IF renderMode = "preview"
    THEN [html |-> IF partial \in DOMAIN fragmentContent
                   THEN fragmentContent[partial]
                   ELSE IF partial \in ObjectPrototype
                        THEN inherited(partial)
                        ELSE undefined]
    ELSE [json |-> fragmentContent]

\* renderFragment(fragmentName, renderMode, partial, cookieValue) up to the
\* await of render: `if (this.fragments[fragmentName])` finds the configured
\* fragments and the inherited properties (whose render is no function, a
\* TypeError); any other name is an error.
renderFragment(fragments, fragmentName, renderMode, partial, cookieValue) ==
    LET notRendered(error) ==
            [phase |-> "rejected", targetVersion |-> cookieValue,
             dataCalls |-> 0, contentCalls |-> 0, error |-> error]
        rendering ==
            IF fragmentName \in DOMAIN fragments
            THEN render(fragments[fragmentName], cookieValue)
            ELSE IF fragmentName \in ObjectPrototype
                 THEN notRendered("this.fragments[fragmentName].render is not a function")
                 ELSE notRendered("Failed to find fragment")
    IN  [phase |-> rendering.phase,
         fragmentBFF |-> IF fragmentName \in DOMAIN fragments
                         THEN fragments[fragmentName] ELSE undefined,
         fragmentName |-> fragmentName,
         renderMode |-> renderMode, partial |-> partial,
         targetVersion |-> rendering.targetVersion,
         dataCalls |-> rendering.dataCalls,
         contentCalls |-> rendering.contentCalls,
         data |-> undefined, error |-> rendering.error, result |-> undefined]

\* The route handler of addFragmentRoutes on req, up to the await of
\* renderFragment.
fragmentRoute(fragmentBFF, req) ==
    LET renderMode ==
            IF RENDER_MODE_QUERY_NAME \in DOMAIN req.query
               /\ req.query[RENDER_MODE_QUERY_NAME] = "stream"
            THEN "stream" ELSE "preview"
        partial ==
            IF PREVIEW_PARTIAL_QUERY_NAME \in DOMAIN req.query
               /\ req.query[PREVIEW_PARTIAL_QUERY_NAME] # ""
            THEN req.query[PREVIEW_PARTIAL_QUERY_NAME]
            ELSE DEFAULT_MAIN_PARTIAL
        rendering == renderFragment(gatewayFragments(fragmentBFF), "product",
                                    renderMode, partial, req.cookie)
    IN  [op |-> "fragmentRoute", phase |-> rendering.phase,
         fragmentBFF |-> rendering.fragmentBFF, req |-> req,
         fragmentName |-> rendering.fragmentName,
         renderMode |-> renderMode, partial |-> partial,
         targetVersion |-> rendering.targetVersion,
         dataCalls |-> rendering.dataCalls,
         contentCalls |-> rendering.contentCalls,
         data |-> undefined, error |-> rendering.error,
         result |-> undefined, response |-> undefined]

\* A request arrives at the fragment route of a gateway configured with
\* fragmentConfig.
FragmentRoute ==
    /\ call = NoCall
    /\ \E fragmentConfig \in FragmentBFFConfigs, req \in RouteRequests :
          call' = fragmentRoute(FragmentBFF(fragmentConfig), req)
    /\ UNCHANGED fragment
    /\ UNCHANGED gatewayVars

\* renderFragment, a public method of the gateway, is called by other code
\* than the route, with any fragment name and render mode.
RenderFragment ==
    /\ call = NoCall
    /\ \E fragmentConfig \in FragmentBFFConfigs, fragmentName \in FragmentNames,
          renderMode \in RenderModes, cookieValue \in CookieValues :
          LET rendering == renderFragment(gatewayFragments(FragmentBFF(fragmentConfig)),
                                          fragmentName, renderMode,
                                          DEFAULT_MAIN_PARTIAL, cookieValue)
          IN  call' = [op |-> "renderFragment", phase |-> rendering.phase,
                       fragmentBFF |-> rendering.fragmentBFF, req |-> undefined,
                       fragmentName |-> fragmentName,
                       renderMode |-> renderMode, partial |-> DEFAULT_MAIN_PARTIAL,
                       targetVersion |-> rendering.targetVersion,
                       dataCalls |-> rendering.dataCalls,
                       contentCalls |-> rendering.contentCalls,
                       data |-> undefined, error |-> rendering.error,
                       result |-> undefined, response |-> undefined]
    /\ UNCHANGED fragment
    /\ UNCHANGED gatewayVars

\* `await handler.data(req)` resumes with the data; content(req, data) is
\* called.
DataResolved ==
    /\ call.phase = "data"
    /\ call' = [call EXCEPT !.phase = "content",
                            !.data = [of |-> call.targetVersion],
                            !.contentCalls = call.contentCalls + 1]
    /\ UNCHANGED fragment
    /\ UNCHANGED gatewayVars

\* handler.data throws or rejects: render rejects, and so does the handler of
\* the route, which has no catch.
DataRejected ==
    /\ call.phase = "data"
    /\ call' = [call EXCEPT !.phase = "rejected", !.error = "data handler failed"]
    /\ UNCHANGED fragment
    /\ UNCHANGED gatewayVars

\* handler.content returns: renderFragment resolves with the response in the
\* render mode, and the route answers res.status(200).end(gatewayContent).
ContentReturned ==
    /\ call.phase = "content"
    /\ LET gatewayContent ==
               renderFragmentSettled(content(call.targetVersion, call.data),
                                     call.renderMode, call.partial)
       IN  call' = [call EXCEPT
                      !.phase = IF call.op = "fragmentRoute"
                                THEN "responded" ELSE "resolved",
                      !.result = gatewayContent,
                      !.response = IF call.op = "fragmentRoute"
                                   THEN [status |-> 200, body |-> gatewayContent]
                                   ELSE undefined]
    /\ UNCHANGED fragment
    /\ UNCHANGED gatewayVars

\* handler.content throws.
ContentThrew ==
    /\ call.phase = "content"
    /\ call' = [call EXCEPT !.phase = "rejected", !.error = "content handler failed"]
    /\ UNCHANGED fragment
    /\ UNCHANGED gatewayVars

\* The handler of the route is over: it has answered, or its promise is
\* rejected and nothing was sent; or the promise of a renderFragment called
\* on its own is settled.
RouteOver ==
    /\ call.phase \in {"responded", "resolved", "rejected"}
    /\ call' = NoCall
    /\ UNCHANGED fragment
    /\ UNCHANGED gatewayVars

NextBFF ==
    \/ FragmentRoute
    \/ RenderFragment
    \/ DataResolved
    \/ DataRejected
    \/ ContentReturned
    \/ ContentThrew
    \/ RouteOver

\* One GatewayBFF serving requests to the route of its fragment.
SpecBFF == Init /\ [][NextBFF]_vars

\* ------------------------------------------------------------- the Api
\* Version names of an Api, and the values req.cookies[testCookie] can have:
\* "undefined" when the cookie is absent (the key an absent value is looked up
\* under, and the text it is written as in the url), a version name, a name
\* of no version, and names of properties every object inherits from
\* Object.prototype.
ApiVersions == {"1.0.0", "1.0.1"}

ApiCookies == {"undefined", "9.9.9"} \cup ApiVersions \cup ObjectPrototype

\* IApiConfig: liveVersion and versions, each version with its endpoints.
ApiConfigs ==
    [liveVersion : ApiVersions,
     versions : UNION {[known -> {<< "items" >>}] :
                          known \in SUBSET ApiVersions \ {{}}}]

\* The requests under the route prefix: req.url inside the middleware (the
\* segments after the prefix) and the test cookie.
ApiRequests == [url : {<< >>, << "items" >>, << "items", "7" >>}, cookie : ApiCookies]

\* object[key] is truthy: an own key (every version is an object), or a
\* property inherited from Object.prototype.
truthy(object, key) == key \in DOMAIN object \/ key \in ObjectPrototype

\* The middleware of registerEndpoints: requestVersion, and req.url prefixed
\* with it.  [cookie] is an array and always truthy.
requestVersion(apiConfig, cookie) ==
    IF truthy(apiConfig.versions, cookie) THEN cookie ELSE apiConfig.liveVersion

\* The routes registered for the versions: /<version><endpoint.path>.
routes(apiConfig) ==
    {<< version >> \o apiConfig.versions[version] : version \in DOMAIN apiConfig.versions}

\* A request under the prefix of an Api configured with apiConfig: the
\* middleware rewrites req.url and calls next().
ApiUse ==
    /\ call = NoCall
    /\ \E apiConfig \in ApiConfigs, req \in ApiRequests :
          call' = [op |-> "api", phase |-> "next", config |-> apiConfig, req |-> req,
                   url |-> << requestVersion(apiConfig, req.cookie) >> \o req.url,
                   rewrites |-> 1, routed |-> FALSE]
    /\ UNCHANGED fragment
    /\ UNCHANGED gatewayVars

\* The router matches the rewritten url against the registered routes.
ApiRoute ==
    /\ call.phase = "next"
    /\ call' = [call EXCEPT !.phase = "over",
                            !.routed = call.url \in routes(call.config)]
    /\ UNCHANGED fragment
    /\ UNCHANGED gatewayVars

ApiOver ==
    /\ call.phase = "over"
    /\ call' = NoCall
    /\ UNCHANGED fragment
    /\ UNCHANGED gatewayVars

NextApi ==
    \/ ApiUse
    \/ ApiRoute
    \/ ApiOver

\* One Api serving requests under its prefix.
SpecApi == Init /\ [][NextApi]_vars

\* ------------------------------------------------------- the page renderer
\* The page of the storefront: fragment 'product', primary or not, and
\* fragment 'header', never primary, both from gateway 'Browsing'.
PageFragments == {"product", "header"}

PagePlans == [primary : {{}, {"product"}}]

\* The main partial of a content response, '' when it has none.
mainPartial(html) ==
    IF \E pair \in html : pair[1] = "main"
    THEN (CHOOSE pair \in html : pair[1] = "main")[2]
    ELSE ""

\* The status of the page: the primary fragment's when that is outside
\* 200..299 (a failed fetch has status 500), else 200.
pageStatus(plan, results) ==
    IF \E name \in plan.primary : results[name].status \notin 200..299
    THEN results[CHOOSE name \in plan.primary : TRUE].status
    ELSE 200

\* The body of the page: in template order one wrapper per fragment around the
\* main partial it returned; only a non-primary wrapper has the chunk
\* attribute.
pageBody(plan, results) ==
    [name \in PageFragments |->
        [fragment |-> name, gateway |-> "Browsing",
         chunk |-> name \notin plan.primary,
         content |-> mainPartial(results[name].html)]]

\* A page is requested: the content of every fragment is fetched at once.
PageRequest ==
    /\ call = NoCall
    /\ \E plan \in PagePlans :
          call' = [op |-> "page", phase |-> "fetching", plan |-> plan,
                   outcomes |-> [name \in PageFragments |-> [kind |-> "none"]],
                   results |-> [name \in PageFragments |-> undefined],
                   response |-> undefined]
    /\ UNCHANGED fragment
    /\ UNCHANGED gatewayVars

\* The getContent of one fragment settles: answered by the gateway, or failed.
ContentSettled ==
    /\ call.phase = "fetching"
    /\ \E name \in PageFragments :
          /\ call.results[name] = undefined
          /\ \E outcome \in
                 [kind : {"answered"}, status : {200, 301, 404},
                  body : {{<< "main", "Product Content" >>},
                          {<< "main", "Not Found" >>, << "meta", "m" >>}}]
                 \cup [kind : FailureKinds] :
                call' = [call EXCEPT !.outcomes[name] = outcome,
                                     !.results[name] = getContentSettled(outcome)]
    /\ UNCHANGED fragment
    /\ UNCHANGED gatewayVars

\* Every fetch has settled: the page answers.
PageRespond ==
    /\ call.phase = "fetching"
    /\ \A name \in PageFragments : call.results[name] # undefined
    /\ call' = [call EXCEPT !.phase = "responded",
                            !.response = [status |-> pageStatus(call.plan, call.results),
                                          body |-> pageBody(call.plan, call.results)]]
    /\ UNCHANGED fragment
    /\ UNCHANGED gatewayVars

PageOver ==
    /\ call.phase = "responded"
    /\ call' = NoCall
    /\ UNCHANGED fragment
    /\ UNCHANGED gatewayVars

NextPage ==
    \/ PageRequest
    \/ ContentSettled
    \/ PageRespond
    \/ PageOver

\* One page of the storefront rendered for one request after the other.
SpecPage == Init /\ [][NextPage]_vars

\* The call in hand is one of op, made or settled.
Calling(op) == call # NoCall /\ call.op = op

\* --------------------------------------------- the streaming page renderer
\* The longest template of the model, in fragments.
MaxFragments == 2

\* A fragment of a template is primary, or waited for (shouldwait), or
\* streamed; a streamed fragment's descriptor can enable a placeholder.
NodeKinds == {"primary", "wait", "chunk", "chunkPlaceholder"}

\* The templates: their fragments in document order, at most one primary.
Templates ==
    {template \in UNION {[1..n -> NodeKinds] : n \in 0..MaxFragments} :
        Cardinality({i \in DOMAIN template : template[i] = "primary"}) <= 1}

\* A variant that waits for the primary fragment only.
waitedPrimaryOnly(template) ==
    {i \in DOMAIN template : template[i] = "primary"}

\* The fragments whose content the first flush holds, and the streamed ones.
waited(template) ==
    {i \in DOMAIN template : template[i] \in {"primary", "wait"}}

streamed(template) == DOMAIN template \ waited(template)

\* The pages whose responses the storefront's tests expect with an empty
\* <head/>: the only fragment of the template is primary.
primaryOnly(template) ==
    /\ template # << >>
    /\ \A i \in DOMAIN template : template[i] = "primary"

\* compile(template): the page; the content-replace script is put into <head>,
\* of every template but those the tests show without it.
compile(template) ==
    [template |-> template, script |-> ~primaryOnly(template)]

\* The first flush can be sent: every waited fragment's fetch has settled.
flushable(template, results) ==
    \A i \in waited(template) : results[i] # undefined

\* The status of the response: the primary fragment's when outside 200..299.
streamStatus(template, results) ==
    IF \E i \in DOMAIN template :
          template[i] = "primary" /\ results[i].status \notin 200..299
    THEN results[CHOOSE i \in DOMAIN template : template[i] = "primary"].status
    ELSE 200

\* A piece of the response body.
piece(type, node, html, attributes) ==
    [type |-> type, node |-> node, html |-> html, attributes |-> attributes]

\* The wrapper of fragment i in the first flush: a waited fragment's holds
\* its content, a streamed fragment's is its placeholder container.
wrapper(template, results, i) ==
    IF i \in waited(template)
    THEN piece("wrapper", i, mainPartial(results[i].html), {})
    ELSE IF template[i] = "chunkPlaceholder"
         THEN piece("wrapper", i, "Product Placeholder",
                    {"puzzle-chunk", "puzzle-placeholder"})
         ELSE piece("wrapper", i, "", {"puzzle-chunk"})

\* The first flush: the literal up to the first fragment (with <head>), then
\* in document order each fragment's wrapper and the literal after it.
firstFlush(page, results) ==
    [k \in 1..(2 * Len(page.template) + 1) |->
        IF k = 1
        THEN piece("literal", 0, "", IF page.script THEN {"script"} ELSE {})
        ELSE IF k % 2 = 0
             THEN wrapper(page.template, results, k \div 2)
             ELSE piece("literal", k \div 2, "", {})]

\* A variant of the chunk that is written twice.
chunkTwice(results, i) ==
    << piece("chunk", i, mainPartial(results[i].html), {"puzzle-chunk-key"}),
       piece("chunk", i, mainPartial(results[i].html), {"puzzle-chunk-key"}),
       piece("splice", i, "", {}) >>

\* The out-of-band chunk of fragment i: the hidden container, then its script.
chunk(results, i) ==
    << piece("chunk", i, mainPartial(results[i].html), {"puzzle-chunk-key"}),
       piece("splice", i, "", {}) >>

\* A variant that writes the chunks in document order.
RECURSIVE chunksInDocumentOrder(_, _, _)
chunksInDocumentOrder(template, results, settled) ==
    IF settled = << >> THEN << >>
    ELSE LET i == CHOOSE j \in {settled[k] : k \in DOMAIN settled} :
                      \A k \in DOMAIN settled : j <= settled[k]
             rest == SelectSeq(settled, LAMBDA j : j # i)
         IN  (IF i \in streamed(template) THEN chunk(results, i) ELSE << >>)
             \o chunksInDocumentOrder(template, results, rest)

\* The chunks of the streamed fragments among the settled ones, in the order
\* their fetches settled.
RECURSIVE chunks(_, _, _)
chunks(template, results, settled) ==
    IF settled = << >> THEN << >>
    ELSE IF Head(settled) \in streamed(template)
         THEN chunk(results, Head(settled)) \o chunks(template, results, Tail(settled))
         ELSE chunks(template, results, Tail(settled))

\* A page is requested: the content of every fragment is fetched at once.
StreamRequest ==
    /\ call = NoCall
    /\ \E template \in Templates :
          call' = [op |-> "stream", phase |-> "waiting", page |-> compile(template),
                   results |-> [i \in DOMAIN template |-> undefined],
                   settled |-> << >>, status |-> 0, output |-> << >>]
    /\ UNCHANGED fragment
    /\ UNCHANGED gatewayVars

\* The getContent of fragment i settles; after the first flush the chunk of a
\* streamed fragment is written at once.
StreamSettled ==
    /\ Calling("stream")
    /\ \E i \in DOMAIN call.page.template :
          /\ call.results[i] = undefined
          /\ \E outcome \in {[kind |-> "answered", status |-> 200,
                              body |-> {<< "main", "Product Content" >>}],
                             [kind |-> "answered", status |-> 404,
                              body |-> {<< "main", "Not Found" >>}],
                             [kind |-> "timeout"]} :
                LET results == [call.results EXCEPT ![i] = getContentSettled(outcome)]
                IN  call' = [call EXCEPT
                               !.results = results,
                               !.settled = Append(call.settled, i),
                               !.output =
                                   IF call.phase = "streaming"
                                      /\ i \in streamed(call.page.template)
                                   THEN call.output \o chunk(results, i)
                                   ELSE call.output]
    /\ UNCHANGED fragment
    /\ UNCHANGED gatewayVars

\* The first flush: status, the page up to the closing markup, and the chunks
\* of the streamed fragments that have settled already.
FirstFlush ==
    /\ Calling("stream")
    /\ call.phase = "waiting"
    /\ flushable(call.page.template, call.results)
    /\ call' = [call EXCEPT
                  !.phase = "streaming",
                  !.status = streamStatus(call.page.template, call.results),
                  !.output = firstFlush(call.page, call.results)
                             \o chunks(call.page.template, call.results, call.settled)]
    /\ UNCHANGED fragment
    /\ UNCHANGED gatewayVars

\* Every fetch has settled and every chunk is written: the closing markup is
\* written and the response ends.
StreamEnd ==
    /\ Calling("stream")
    /\ call.phase = "streaming"
    /\ \A i \in DOMAIN call.page.template : call.results[i] # undefined
    /\ call' = [call EXCEPT !.phase = "ended",
                            !.output = Append(call.output, piece("closing", 0, "", {}))]
    /\ UNCHANGED fragment
    /\ UNCHANGED gatewayVars

StreamOver ==
    /\ Calling("stream")
    /\ call.phase = "ended"
    /\ call' = NoCall
    /\ UNCHANGED fragment
    /\ UNCHANGED gatewayVars

NextStream ==
    \/ StreamRequest
    \/ StreamSettled
    \/ FirstFlush
    \/ StreamEnd
    \/ StreamOver

\* One page of the storefront streamed for one request after the other.
SpecStream == Init /\ [][NextStream]_vars

\* The same, the renderer's continuations being run once they can.
SpecStreamLive ==
    SpecStream /\ WF_vars(FirstFlush) /\ WF_vars(StreamEnd) /\ WF_vars(StreamOver)

\* ------------------------------------------------------------- properties
\* The step is update() applied to the answer of poll p.
Applied(p) ==
    /\ p \in inflight
    /\ p.phase = "answered"
    /\ inflight' = inflight \ {p}

\* The step is the catch of poll p, whose fetch or whose res.json() rejected.
Rejected(p) ==
    /\ p \in inflight
    /\ p.phase = "sent"
    /\ inflight' = inflight \ {p}

\* The notifications of one type emitted so far.
Emitted(type) == Cardinality({i \in 1..Len(events) : events[i].type = type})

\* The catalogs a gateway process can serve.
Catalogs == {GatewayBFF(gatewayConfig) : gatewayConfig \in BFFConfigs}

\* cfg is one whole catalog as some gateway process served it: its fragments
\* and its hash belong together.
WholeCatalog(cfg) ==
    \E c \in Catalogs : cfg.fragments = c.fragments /\ cfg.hash = c.hash

\* fetch() calls whose chain ended in the catch.
failedPolls == nextPoll - applied - Cardinality(inflight)

\* C1: when update() is applied to an answer whose hash differs from the
\* stored config's hash while a config is stored, that step makes the answer
\* the stored config as a whole and emits exactly one GATEWAY_UPDATED, whose
\* listener is handed the instance holding the new config; and in every state
\* the stored config is one whole catalog, never a mix of two.
C1_ReplacedWholeOnce ==
    /\ [](config # undefined => WholeCatalog(config))
    /\ [][\A p \in inflight :
            (Applied(p) /\ config # undefined /\ p.data.hash # config.hash)
            => /\ config' = p.data
               /\ events' = Append(events,
                                   [type |-> GATEWAY_UPDATED, seen |-> p.data])]_vars

C1_Witness ==
    /\ Len(events) >= 2
    /\ events[Len(events)].type = GATEWAY_UPDATED
    /\ config = events[Len(events)].seen
    /\ config.hash # events[Len(events) - 1].seen.hash

\* C2: when update() is applied to an answer whose hash equals the stored
\* config's hash, the stored config stays the very object it was (the answer's
\* object does not take its place) and nothing is emitted.
C2_EqualHashNoOp ==
    [][\A p \in inflight :
         (Applied(p) /\ config # undefined /\ p.data.hash = config.hash)
         => /\ config' = config
            /\ config'.obj # p.data.obj
            /\ events' = events]_vars

C2_Witness ==
    /\ applied >= 2
    /\ Len(events) = 1
    /\ config = events[1].seen

\* C3: the first answer applied while no config is stored becomes the stored
\* config and emits exactly one GATEWAY_READY and no GATEWAY_UPDATED; over a
\* whole behaviour GATEWAY_READY is emitted at most once and it is the first
\* notification, so no GATEWAY_UPDATED comes before it.
C3_ReadyOnceAndFirst ==
    /\ [](/\ Emitted(GATEWAY_READY) <= 1
          /\ events # << >> => events[1].type = GATEWAY_READY)
    /\ [][\A p \in inflight :
            (Applied(p) /\ config = undefined)
            => /\ config' = p.data
               /\ events' = Append(events,
                                   [type |-> GATEWAY_READY, seen |-> p.data])]_vars

\* C4: a poll that fails (the fetch rejects, or the body is no JSON) leaves the
\* stored config as it is, emits nothing, lets no error escape, and leaves the
\* interval timers armed as they were, so the next tick still polls.
C4_FailedPollChangesNothing ==
    [][\A p \in inflight :
         Rejected(p)
         => /\ config' = config
            /\ events' = events
            /\ unhandled' = unhandled
            /\ timers' = timers
            /\ intervalId' = intervalId]_vars

C4_Witness ==
    /\ failedPolls >= 1
    /\ config # undefined
    /\ timers # {}
    /\ unhandled = 0

\* C5 (as claimed): while stopUpdating was the last of the startUpdating and
\* stopUpdating calls (or neither was ever called), no timer starts a poll.
C5_NoPollAfterStop ==
    [][~updating => nextPoll' = nextPoll]_vars

\* C6: stopUpdating called when startUpdating was never called, or called again
\* after a stopUpdating, raises no error and changes nothing of the instance:
\* in such a state no stopUpdating step can lead to a different state.
C6_StopIdempotent ==
    ~updating => ~ENABLED (StopUpdating /\ vars' # vars)

C6_Witness ==
    /\ ~updating
    /\ intervalId # 0
    /\ intervalId \notin timers
    /\ Len(events) >= 1

\* C7 (as claimed): the GATEWAY_UPDATED notifications emitted never outnumber
\* the changes of the hash the gateway advertises.
C7_UpdatedAtMostChanges ==
    Emitted(GATEWAY_UPDATED) <= hashChanges

\* C8: the hash the gateway advertises is the digest of the serialization of
\* its whole exposed catalog, so whenever update() is applied to an answer
\* whose fragment descriptors differ in any field from the stored config's
\* (which are those of the answer applied before), the answer becomes the
\* stored config and GATEWAY_UPDATED is emitted; after every applied answer
\* the stored descriptors are the answer's.
C8_AnyContentChangeDetected ==
    /\ [](remote.hash = md5(JSONstringify([remote EXCEPT !.hash = 0])))
    /\ [][\A p \in inflight :
            Applied(p)
            => /\ config'.fragments = p.data.fragments
               /\ (config # undefined /\ p.data.fragments # config.fragments)
                  => /\ config' = p.data
                     /\ events' = Append(events,
                                   [type |-> GATEWAY_UPDATED, seen |-> p.data])]_vars

C8_Witness ==
    /\ Len(events) >= 2
    /\ events[Len(events)].type = GATEWAY_UPDATED
    /\ events[Len(events)].seen.fragments.product.version
          = events[Len(events) - 1].seen.fragments.product.version
    /\ events[Len(events)].seen.fragments.product.render
          # events[Len(events) - 1].seen.fragments.product.render

\* C9: when a GATEWAY_READY or GATEWAY_UPDATED listener runs, the instance it
\* is handed already holds the newly fetched catalog, and the instance holds
\* that catalog until the next notification: a render started from the
\* listener or at any time after it resolves fragments against the catalog of
\* the latest notification.
C9_ListenerSeesNewConfig ==
    IF events = << >>
    THEN config = undefined
    ELSE config = events[Len(events)].seen

C9_Witness ==
    /\ Len(events) >= 2
    /\ events[Len(events)].type = GATEWAY_UPDATED
    /\ ~events[1].seen.fragments.product.render.placeholder
    /\ events[Len(events)].seen.fragments.product.render.placeholder
    /\ config.fragments.product.render.placeholder

\* C10 (as claimed): once polling was stopped by stopUpdating, the instance
\* holds no config.
C10_DiscardedOnStop ==
    (~updating /\ intervalId # 0) => config = undefined

\* C10 (amended): stopUpdating leaves the stored config as it is, and a config
\* once stored is never discarded: it is only ever replaced by another.
C10_KeptOnStop ==
    /\ [][(updating /\ ~updating') => config' = config]_vars
    /\ [][config # undefined => config' # undefined]_vars

C10_Witness ==
    /\ ~updating
    /\ intervalId # 0
    /\ config # undefined
    /\ Emitted(GATEWAY_UPDATED) >= 1

\* cfg is a complete catalog: an object with its fragments and its hash.
Complete(cfg) ==
    /\ ~falsy(cfg)
    /\ cfg.fragments # undefined
    /\ cfg.hash >= 0

\* C11 (as claimed): the instance holds no config before GATEWAY_READY was
\* emitted, and a complete catalog (fragments and hash) in every state after
\* it, whatever answers, failures and malformed answers the polls get.
C11_NoneOrComplete ==
    IF Emitted(GATEWAY_READY) = 0 THEN config = undefined ELSE Complete(config)

\* C12: getContent never rejects: it settles with the status and the decoded
\* partials of the answer, or with the failure outcome {status: 500, html: {}};
\* with the failure outcome on a timeout, a transport error and a body that
\* does not decode, and also without a config, when it sends no request.
C12_ContentNeverRejects ==
    Calling("getContent")
    => /\ call.phase # "rejected"
       /\ ~call.configured => (call.phase = "done" /\ call.sent = 0
                               /\ call.result = failure)
       /\ call.phase = "done"
          => /\ \/ call.result = failure
                \/ /\ call.outcome.kind = "answered"
                   /\ call.result = [status |-> call.outcome.status,
                                     html |-> call.outcome.body]
             /\ call.outcome.kind = "answered"
                => call.result = [status |-> call.outcome.status,
                                  html |-> call.outcome.body]
             /\ call.outcome.kind \in FailureKinds => call.result = failure

\* C13: getPlaceholder sends a request only if the fragment's descriptor
\* declares placeholder support; without a descriptor, or without the
\* support, it returns '' and sends nothing; when its request fails it
\* returns ''.
C13_PlaceholderOnlyIfDeclared ==
    Calling("getPlaceholder")
    => /\ call.sent = 1 => (call.configured /\ call.enabled)
       /\ ~(call.configured /\ call.enabled)
          => (call.phase = "done" /\ call.sent = 0 /\ call.result = "")
       /\ (call.phase = "done" /\ call.outcome.kind \in FailureKinds)
          => call.result = ""

C13_Witness ==
    /\ Calling("getPlaceholder")
    /\ call.phase = "done"
    /\ call.sent = 1
    /\ call.outcome.kind = "transport"
    /\ call.result = ""

\* The internal control parameters, and the render-mode selector.
ControlParameters == {"from", "name", "partial", "primary", "shouldwait"}


\* C14 (as claimed): the query getContent sends holds no control parameter
\* and not the render-mode selector the caller supplied, it holds every other
\* parameter of the caller's query with the caller's value, and the caller's
\* headers are sent as they are.
C14_ControlParametersStripped ==
    (Calling("getContent") /\ call.sent = 1)
    => /\ \A pair \in call.request.query : pair[1] \notin ControlParameters
       /\ parsed(call.req)
          => \A k \in DOMAIN call.req.url.query :
                IF k \in ControlParameters \cup {RENDER_MODE_QUERY_NAME}
                THEN << k, call.req.url.query[k] >> \notin call.request.query
                ELSE << k, call.req.url.query[k] >> \in call.request.query
       /\ call.req # noRequest => call.request.headers = call.req.headers

\* C15 (as claimed): every fetch the fragment starts, for content or for a
\* placeholder, carries a timeout, so that it settles when the gateway never
\* answers.
C15_EveryFetchHasTimeout ==
    (call # NoCall /\ call.phase = "fetching") => call.request.timeout > 0

\* The lookup of the handler in render finds something (`if (handler)`), and
\* what it finds is the handler of a configured version.
HandlerFound == handlerFound(call.fragmentBFF, call.targetVersion)

HandlerConfigured == call.targetVersion \in DOMAIN call.fragmentBFF.handler

\* C16: on the fragment route a test cookie that equals a configured version
\* selects that version's handler, every other cookie value (absent, empty,
\* naming no version) selects the live version's handler, and the request
\* never fails for want of a version.
C16_CookieVersionOrLive ==
    Calling("fragmentRoute")
    => /\ call.targetVersion =
              IF call.req.cookie \in DOMAIN call.fragmentBFF.config.versions
              THEN call.req.cookie
              ELSE call.fragmentBFF.config.version
       /\ HandlerConfigured
       /\ call.error \notin {"Failed to find fragment version",
                             "handler.content is not a function"}

\* C18 as stated: a static fragment's content is called without its data
\* function; a non-static fragment's data function, when there is one, is
\* called once and has resolved before content is called with its result; and
\* without a data function the content is rendered all the same.
C18_DataStageOptional ==
    Calling("fragmentRoute") /\ HandlerFound
    => IF call.fragmentBFF.config.render.static
       THEN call.dataCalls = 0 /\ call.contentCalls = 1 /\ call.data = undefined
       ELSE IF handlerData(call.fragmentBFF, call.targetVersion)
            THEN /\ call.dataCalls = 1
                 /\ call.contentCalls = IF call.phase \in {"content", "responded"}
                                           \/ call.error = "content handler failed"
                                        THEN 1 ELSE 0
                 /\ call.contentCalls = 1 => call.data = [of |-> call.targetVersion]
                 /\ call.phase = "data" => call.data = undefined
            ELSE /\ call.dataCalls = 0
                 /\ call.contentCalls = 1
                 /\ call.error # "Failed to find data handler"

\* C18, amended: whenever the lookup of the handler finds something, a static
\* fragment's data function is not called and content(req) is called at once
\* (and fails with a TypeError, nothing being rendered, when what was found is
\* an inherited property and no handler); a non-static fragment's data
\* function, when there is one, is called once and has resolved before content
\* is called with its result; and a non-static fragment without a data
\* function (a handler without one, or an inherited property) is not rendered:
\* render fails with 'Failed to find data handler', content is not called and
\* the route sends nothing.
C18_DataStageRequired ==
    Calling("fragmentRoute") /\ HandlerFound
    => IF call.fragmentBFF.config.render.static
       THEN /\ call.dataCalls = 0
            /\ call.data = undefined
            /\ IF HandlerConfigured
               THEN call.contentCalls = 1
               ELSE /\ call.contentCalls = 0
                    /\ call.phase = "rejected"
                    /\ call.error = "handler.content is not a function"
                    /\ call.response = undefined
       ELSE IF handlerData(call.fragmentBFF, call.targetVersion)
            THEN /\ call.dataCalls = 1
                 /\ call.contentCalls = IF call.phase \in {"content", "responded"}
                                           \/ call.error = "content handler failed"
                                        THEN 1 ELSE 0
                 /\ call.contentCalls = 1 => call.data = [of |-> call.targetVersion]
                 /\ call.phase = "data" => call.data = undefined
            ELSE /\ call.dataCalls = 0
                 /\ call.contentCalls = 0
                 /\ call.phase = "rejected"
                 /\ call.error = "Failed to find data handler"
                 /\ call.response = undefined

\* A non-static fragment whose selected handler has no data function was
\* requested, and render has failed.
C18_Witness ==
    /\ Calling("fragmentRoute") /\ HandlerConfigured
    /\ ~call.fragmentBFF.config.render.static
    /\ ~handlerData(call.fragmentBFF, call.targetVersion)
    /\ call.phase = "rejected"

\* C19: once the handler of the fragment route is over the request has a
\* response: status 200 and the rendered partials when the render succeeded, a
\* status outside 200..299 when it failed (no such version, no data function,
\* a handler that throws).
C19_RouteAlwaysAnswers ==
    Calling("fragmentRoute") /\ call.phase \in {"responded", "rejected"}
    => /\ call.response # undefined
       /\ IF call.phase = "responded"
          THEN /\ call.response.status = 200
               /\ call.response.body =
                      renderFragmentSettled(content(call.targetVersion, call.data),
                                            call.renderMode, call.partial)
          ELSE call.response.status \notin 200..299

\* C17: every request under the prefix of an Api has its path prefixed once
\* with one version: the test cookie's value when it is a key of
\* config.versions, else config.liveVersion; so the prefix is always a
\* configured version or the live version, whatever the cookie.
C17_PrefixedOnceWithKnownVersion ==
    Calling("api")
    => /\ call.rewrites = 1
       /\ Len(call.url) = Len(call.req.url) + 1
       /\ SubSeq(call.url, 2, Len(call.url)) = call.req.url
       /\ call.url[1] = IF call.req.cookie \in DOMAIN call.config.versions
                        THEN call.req.cookie
                        ELSE call.config.liveVersion
       /\ call.url[1] \in DOMAIN call.config.versions \cup {call.config.liveVersion}

\* C20: the status of a page is the status of its primary fragment when that
\* fragment's fetch failed (500) or was answered outside 200..299, and 200
\* otherwise, whatever the other fragments returned; the primary fragment's
\* wrapper has no chunk attribute and holds the content it returned.
C20_PageStatusIsPrimaryStatus ==
    Calling("page") /\ call.phase = "responded"
    => /\ \A name \in call.plan.primary :
             LET outcome == call.outcomes[name]
                 status == IF outcome.kind = "answered" THEN outcome.status ELSE 500
             IN  /\ call.response.status =
                        IF status \notin 200..299 THEN status ELSE 200
                 /\ ~call.response.body[name].chunk
                 /\ call.response.body[name].content =
                        IF outcome.kind = "answered"
                        THEN mainPartial(outcome.body) ELSE ""
       /\ call.plan.primary = {} => call.response.status = 200

\* A page whose primary fragment was answered 404 has responded, the other
\* fragment having been answered 200.
C20_Witness ==
    /\ Calling("page") /\ call.phase = "responded"
    /\ call.plan.primary = {"product"}
    /\ call.outcomes["product"].kind = "answered"
    /\ call.outcomes["product"].status = 404
    /\ call.outcomes["header"].kind = "answered"
    /\ call.outcomes["header"].status = 200
    /\ call.response.status = 404

\* C21: nothing of a streamed response (status or body) is sent before the
\* fetch of every primary or waited fragment has settled, and the first flush
\* can be sent as soon as they have, whatever the streamed fragments' fetches
\* are doing.
C21_NothingBeforeWaited ==
    Calling("stream")
    => LET marked == {i \in DOMAIN call.page.template :
                         call.page.template[i] \in {"primary", "wait"}}
       IN  /\ (call.status # 0 \/ call.output # << >>)
              => \A i \in marked : call.results[i] # undefined
           /\ (call.phase = "waiting" /\ \A i \in marked : call.results[i] # undefined)
              => ENABLED FirstFlush

\* The first flush of a page with a waited fragment has been sent while the
\* fetch of a streamed fragment is still pending.
C21_Witness ==
    /\ Calling("stream")
    /\ call.phase = "streaming"
    /\ waited(call.page.template) # {}
    /\ \E i \in streamed(call.page.template) : call.results[i] = undefined

\* The positions of the response body that hold a piece of one type for
\* fragment i.
Positions(type, i) ==
    {k \in DOMAIN call.output : call.output[k].type = type /\ call.output[k].node = i}

\* The streamed part of C22 in one state: a fragment that is neither primary
\* nor waited has at most one chunk in the response; the chunk comes after the
\* fragment's placeholder container (pre-filled when the descriptor enables a
\* placeholder), is followed at once by its script, and comes before the
\* closing markup; the closing markup is the last piece and is written only
\* when every such fragment has its chunk.
ChunkedOnce ==
    Calling("stream")
    => \A i \in DOMAIN call.page.template :
          LET kind == call.page.template[i]
              closing == Positions("closing", 0)
          IN  IF kind \in {"primary", "wait"}
              THEN Positions("chunk", i) = {}
              ELSE /\ Cardinality(Positions("chunk", i)) <= 1
                   /\ closing # {} => Cardinality(Positions("chunk", i)) = 1
                   /\ closing \subseteq {Len(call.output)}
                   /\ \A k \in Positions("chunk", i) :
                         /\ k + 1 \in Positions("splice", i)
                         /\ \A c \in closing : k < c
                         /\ \E w \in Positions("wrapper", i) :
                               /\ w < k
                               /\ "puzzle-chunk" \in call.output[w].attributes
                               /\ call.output[w].html =
                                      IF kind = "chunkPlaceholder"
                                      THEN "Product Placeholder" ELSE ""

\* C22: in a streamed response every fragment that is neither primary nor
\* waited gets exactly one out-of-band chunk, after the first flush with its
\* placeholder container and before the closing markup, and once every fetch
\* has settled the closing markup is written and the response ends.
C22_ChunkedOnceThenClosed ==
    /\ []ChunkedOnce
    /\ (Calling("stream") /\ \A i \in DOMAIN call.page.template : call.results[i] # undefined)
       ~> (Calling("stream") /\ call.phase = "ended")

\* A response with two streamed fragments, one with a placeholder, has ended.
C22_Witness ==
    /\ Calling("stream")
    /\ call.phase = "ended"
    /\ Len(call.page.template) = 2
    /\ call.page.template[1] = "chunkPlaceholder"
    /\ call.page.template[2] = "chunk"
    /\ Positions("chunk", 1) # {} /\ Positions("chunk", 2) # {}

\* The fragments whose chunks the response holds, in the order of the chunks.
ChunkOrder ==
    LET held == SelectSeq(call.output, LAMBDA p : p.type = "chunk")
    IN  [k \in DOMAIN held |-> held[k].node]

\* C23: whatever the order in which the fetches of a page settle, the
\* response starts with the literals and the wrappers of all its fragments in
\* document order, each waited fragment's wrapper holding what that fragment
\* returned, and the chunks follow in the order in which the fetches of the
\* streamed fragments settled; no fragment's result removes, holds back or
\* moves the wrapper or the chunk of another.
C23_WrappersInDocumentOrder ==
    Calling("stream") /\ call.phase \in {"streaming", "ended"}
    => LET template == call.page.template
           n == Len(template)
       IN  /\ Len(call.output) >= 2 * n + 1
           /\ \A k \in 1..(2 * n + 1) :
                 IF k % 2 = 1
                 THEN call.output[k].type = "literal" /\ call.output[k].node = k \div 2
                 ELSE /\ call.output[k].type = "wrapper"
                      /\ call.output[k].node = k \div 2
                      /\ template[k \div 2] \in {"primary", "wait"}
                         => call.output[k].html =
                                mainPartial(call.results[k \div 2].html)
           /\ \A k \in DOMAIN call.output :
                 k > 2 * n + 1 => call.output[k].type \notin {"literal", "wrapper"}
           /\ ChunkOrder =
                  SelectSeq(call.settled,
                            LAMBDA i : template[i] \in {"chunk", "chunkPlaceholder"})

\* Two streamed fragments whose fetches settled against document order, the
\* second one failing, have their chunks in the response.
C23_Witness ==
    /\ Calling("stream")
    /\ call.phase = "ended"
    /\ call.page.template = << "chunk", "chunk" >>
    /\ call.settled = << 2, 1 >>
    /\ call.results[2] = failure
    /\ ChunkOrder = << 2, 1 >>

\* The pieces of the response that hold the content-replace script.
Scripts == {k \in DOMAIN call.output : "script" \in call.output[k].attributes}

\* C24 (as claimed): every compiled page holds the content-replace script, and
\* every response rendered from it holds the script exactly once, in <head>,
\* whatever fragments the template has.
C24_ScriptInEveryPage ==
    Calling("stream")
    => /\ call.page.script
       /\ call.phase \in {"streaming", "ended"} => Scripts = {1}

\* C25: every content request getContent sends carries __renderMode=stream
\* and no other render mode, whatever the attributes and the caller's query
\* hold.
C25_AlwaysStreamMode ==
    (Calling("getContent") /\ call.sent = 1)
    => \A pair \in call.request.query :
          pair[1] = RENDER_MODE_QUERY_NAME <=> pair = << RENDER_MODE_QUERY_NAME, "stream" >>

\* The stored snapshot is the catalog the gateway serves now.
Current == config # undefined /\ config.hash = remote.hash

\* No answer that was given before the last change of the catalog is still
\* to be applied.
NoStaleAnswer ==
    \A p \in inflight : p.phase = "answered" => p.data.hash = remote.hash

\* C26: once the catalog has stopped changing and every answer given before
\* its last change has been applied, a poll that succeeds makes the stored
\* snapshot's hash the gateway's current hash, in whatever order the answers
\* of overlapping polls are applied, and from then on the two stay equal for as
\* long as the catalog does not change.
C26_Converges ==
    /\ (hashChanges = MaxRedeploys /\ NoStaleAnswer /\ inflight # {} /\ failedPolls = 0)
       ~> (Current \/ failedPolls > 0)
    /\ [][(Current /\ NoStaleAnswer /\ remote' = remote)
          => (config'.hash = remote'.hash /\ NoStaleAnswer')]_vars

\* The catalog changed once, a stale answer was applied after a fresh one and
\* was itself overwritten by the next poll's answer: nothing is in flight and
\* the stored snapshot is the current catalog.
C26_Witness ==
    /\ hashChanges = 1
    /\ Emitted(GATEWAY_UPDATED) = 2
    /\ inflight = {}
    /\ failedPolls = 0
    /\ Current

====
